---- MODULE Spec2Model ----
(***************************************************************************)
(* State-machine model of the wall tracking node                           *)
(* (src/src/wall_tracking.cpp): the scan and GNSS callbacks, the action    *)
(* server handlers and the execute loop of a goal, with one decision       *)
(* cycle (wallTracking) split at the point where it re-reads shared state. *)
(*                                                                         *)
(* Numbers are fixed-point integers: velocities in 1/1000 (m/s, rad/s),    *)
(* distances in 1/10 m, ray fractions in percent.                          *)
(***************************************************************************)
EXTENDS Integers, Sequences, FiniteSets, TLC

\* ------------------------------------------------------------------ bounds

\* goals sent to the action server in one behaviour
MaxTasks == 2
\* |ei_| stays within this bound (the accumulator is unbounded in the code)
EiBound == 4
\* outdoor scans recorded in the hysteresis history
MaxHist == 5

Tasks == 1..MaxTasks

\* --------------------------------------------------------------- parameters
\* get_param(): values of the node parameters that are the same in every
\* configuration of the model.
distance_from_wall_ == 10
sampling_rate_ == 2
kp_ == 100
ki_ == 25
kd_ == 10
stop_ray_th_ == 50

\* DEG2RAD(-45) in 1/1000 rad
DEG2RAD_m45 == -785
\* sensor_msgs::msg::NavSatFix::COVARIANCE_TYPE_UNKNOWN
COVARIANCE_TYPE_UNKNOWN == 0
CovarianceTypes == 0..3

\* the thresholds 0.7 and 0.4 of the openness scores, in percent
OpenEnterTh == 70
OpenStayTh == 40

\* get_param(): the velocity bounds.  Nothing validates them: besides a wide
\* and a narrow ordinary configuration there are one with
\* min_angular_vel > max_angular_vel and one with a negative max_linear_vel.
WideConfig ==
    [max_linear_vel |-> 400, max_angular_vel |-> 1000, min_angular_vel |-> -1000]
NarrowConfig ==
    [max_linear_vel |-> 200, max_angular_vel |-> 250, min_angular_vel |-> -250]
InvertedConfig ==
    [max_linear_vel |-> 400, max_angular_vel |-> -500, min_angular_vel |-> 500]
BackwardConfig ==
    [max_linear_vel |-> -400, max_angular_vel |-> 1000, min_angular_vel |-> -1000]
Configs == {WideConfig, NarrowConfig, InvertedConfig, BackwardConfig}

\* ------------------------------------------------------------------- scans
\* A scan is represented by what the ScanData queries of this node answer on
\* it: conflictCheck(start_deg_lateral_, gap_th), conflictCheck(90, gap_th),
\* thresholdCheck(flw_deg_, 1.87), noiseCheck(flw_deg_),
\* frontWallCheck(fwc_deg_, distance_to_stop_), leftWallCheck(start, end) and
\* openPlaceCheck over [-90,90], [-15,15], [15,45], [-45,-15].
LateralLevels == {8, 12}
ScoreLevels == {35, 40, 50, 70, 75}

\* a corridor: a wall on the left, nothing ahead, nothing open
Corridor ==
    [conflictStart |-> FALSE, conflict90 |-> FALSE, threshold |-> FALSE,
     noise |-> FALSE, frontWall |-> 0, leftWall |-> 12, open90 |-> 35,
     openFront |-> 35, openLeft |-> 35, openRight |-> 35]

With(f, g) == g @@ f

WallFrames ==
    \* nearer to or farther from the wall than distance_from_wall_
    { With(Corridor, [leftWall |-> l]) : l \in LateralLevels }
    \* a gap at either end of the lateral sector, corroborated
    \cup { With(Corridor, [conflictStart |-> TRUE, noise |-> TRUE]),
           With(Corridor, [conflict90 |-> TRUE, noise |-> TRUE]) }
    \* a gap with a wall front left, a gap that is noise
    \cup { With(Corridor, [conflictStart |-> TRUE, noise |-> TRUE, threshold |-> TRUE]),
           With(Corridor, [conflictStart |-> TRUE]) }
    \* a wall ahead, with and without a corroborated gap
    \cup { With(Corridor, [frontWall |-> stop_ray_th_]),
           With(Corridor, [frontWall |-> stop_ray_th_, conflictStart |-> TRUE,
                           noise |-> TRUE]) }

SectorFrames ==
    { With(Corridor, [open90 |-> 75, openFront |-> 80]),
      With(Corridor, [open90 |-> 75, openLeft |-> 80]),
      With(Corridor, [open90 |-> 75, openRight |-> 80]),
      With(Corridor, [open90 |-> 75, openFront |-> 80, openLeft |-> 80,
                      openRight |-> 80]) }

HystFrames == { With(Corridor, [open90 |-> s]) : s \in ScoreLevels }

\* openPlaceCheck of the three sectors: below 0.7, exactly 0.7, above it
SectorLevels == {35, 70, 80}
SectorGrid ==
    { With(Corridor, [open90 |-> 75, openFront |-> a, openLeft |-> b, openRight |-> c]) :
        a \in SectorLevels, b \in SectorLevels, c \in SectorLevels }

Frames == WallFrames \cup SectorFrames \cup { With(Corridor, [open90 |-> 50]) }

\* scan_data_ before the first scan (a null pointer)
NoScan == [null |-> TRUE]
\* no pub_cmd_vel call yet
NoCmd == << >>
\* a step that publishes nothing on cmd_vel and open_place_detection
NoEmit == [by |-> 0, branch |-> "none", cmd |-> NoCmd, label |-> "", pubs |-> << >>]

VARIABLES
    cfg,              \* the parameters read by get_param()
    ok,               \* rclcpp::ok()
    crashed,          \* the process died on a null scan_data_
    scan_data_, init_scan_data_, outdoor_, open_place_, ei_,
    open_place_arrived_msg_,   \* last message on open_place_arrived
    emit,             \* what the last step published on cmd_vel and
                      \* open_place_detection (pubs: the messages in the
                      \* order of the publish calls), and the branch it took
    pc,               \* per goal: position of its execute thread
    canceling,        \* per goal: a cancel request was accepted
    outcome,          \* per goal: terminal state reported to the client
    result_get,       \* per goal: result->get
    feedback_end,     \* per goal: feedback->end
    gap_start, gap_end, front_left_wall, front_wall_check,  \* locals of wallTracking
    cyclesAfterCancel,\* per goal: decision cycles begun after the cancel request
    stop_cmd,         \* per goal: the message its pub_cmd_vel(0.0, 0.0) published
    req,              \* a requested (linear_x, angular_z) pair
    hist              \* outdoor scans: <<score, flag before, flag after>>

goalVars == <<pc, canceling, outcome, result_get, feedback_end>>
localVars == <<gap_start, gap_end, front_left_wall, front_wall_check>>
ghostVars == <<cyclesAfterCancel, stop_cmd>>
sensorVars == <<scan_data_, init_scan_data_, outdoor_, open_place_, open_place_arrived_msg_>>
vars == <<cfg, ok, crashed, sensorVars, ei_, emit, goalVars,
          localVars, ghostVars, req, hist>>

Min(a, b) == IF a <= b THEN a ELSE b
Max(a, b) == IF a >= b THEN a ELSE b
Abs(a) == IF a < 0 THEN -a ELSE a

\* ---------------------------------------------------------------- init
init_variable ==
    /\ ei_ = 0
    /\ open_place_ = FALSE
    /\ outdoor_ = FALSE
    /\ init_scan_data_ = FALSE

\* the node after its constructor, under parameters c
Constructed(c) ==
    /\ cfg = c
    /\ ok = TRUE
    /\ crashed = FALSE
    /\ init_variable
    /\ scan_data_ = NoScan
    /\ open_place_arrived_msg_ = FALSE
    /\ emit = NoEmit
    /\ pc = [t \in Tasks |-> "idle"]
    /\ canceling = [t \in Tasks |-> FALSE]
    /\ outcome = [t \in Tasks |-> "none"]
    /\ result_get = [t \in Tasks |-> FALSE]
    /\ feedback_end = [t \in Tasks |-> FALSE]
    /\ gap_start = [t \in Tasks |-> FALSE]
    /\ gap_end = [t \in Tasks |-> FALSE]
    /\ front_left_wall = [t \in Tasks |-> FALSE]
    /\ front_wall_check = [t \in Tasks |-> 0]
    /\ cyclesAfterCancel = [t \in Tasks |-> 0]
    /\ stop_cmd = [t \in Tasks |-> NoCmd]
    /\ hist = << >>

Init ==
    /\ \E c \in Configs : Constructed(c)
    /\ req = NoCmd

\* the executor delivers callbacks while the node spins
Spinning == ok /\ ~crashed

\* ------------------------------------------------------------ pub_cmd_vel
\* mutant: the lower clamp of angular_z is missing
pub_cmd_vel_no_lower(linear_x, angular_z, c) ==
    << Min(linear_x, c.max_linear_vel), Min(angular_z, c.max_angular_vel) >>

\* the message pub_cmd_vel(linear_x, angular_z) publishes under parameters c
pub_cmd_vel(linear_x, angular_z, c) ==
    << Min(linear_x, c.max_linear_vel),
       Max(Min(angular_z, c.max_angular_vel), c.min_angular_vel) >>

\* ---------------------------------------------------------- scan_callback
\* mutant: one threshold, no hysteresis
OpenPlaceNext_no_hysteresis(outdoor, open_place, score) ==
    IF ~outdoor THEN FALSE ELSE score >= OpenEnterTh

\* mutant: the indoor case does not clear the flag
OpenPlaceNext_any_mode(outdoor, open_place, score) ==
    IF ~open_place THEN score >= OpenEnterTh ELSE score >= OpenStayTh

\* the value scan_callback assigns to open_place_
OpenPlaceNext(outdoor, open_place, score) ==
    IF ~outdoor THEN FALSE
    ELSE IF ~open_place THEN score >= OpenEnterTh
    ELSE score >= OpenStayTh

ScanUpdate(f) ==
    /\ Spinning
    /\ scan_data_' = f
    /\ init_scan_data_' = TRUE
    /\ open_place_' = OpenPlaceNext(outdoor_, open_place_, f.open90)
    /\ open_place_arrived_msg_' = open_place_'
    /\ emit' = NoEmit
    /\ UNCHANGED <<cfg, ok, crashed, outdoor_, ei_,
                   goalVars, localVars, ghostVars, req>>

scan_callback(f) ==
    /\ ScanUpdate(f)
    /\ UNCHANGED hist

\* ---------------------------------------------------------- gnss_callback
\* mutant: outdoor mode, once entered, is kept
GnssUpdate_latched(covariance_type) ==
    /\ Spinning
    /\ outdoor_' = (outdoor_ \/ covariance_type # COVARIANCE_TYPE_UNKNOWN)
    /\ emit' = NoEmit
    /\ UNCHANGED <<cfg, ok, crashed, scan_data_, init_scan_data_, open_place_,
                   open_place_arrived_msg_, ei_,
                   goalVars, localVars, ghostVars, req>>

GnssUpdate(covariance_type) ==
    /\ Spinning
    /\ outdoor_' = (covariance_type # COVARIANCE_TYPE_UNKNOWN)
    /\ emit' = NoEmit
    /\ UNCHANGED <<cfg, ok, crashed, scan_data_, init_scan_data_, open_place_,
                   open_place_arrived_msg_, ei_,
                   goalVars, localVars, ghostVars, req>>

gnss_callback(covariance_type) ==
    /\ GnssUpdate(covariance_type)
    /\ UNCHANGED hist

\* ---------------------------------------------------- lateral_pid_control
\* the parameters lateral_pid_control reads
NodeGains ==
    [distance_from_wall |-> distance_from_wall_, sampling_rate |-> sampling_rate_,
     kp |-> kp_, ki |-> ki_, kd |-> kd_]

\* mutant: the output uses ei_ as it was before the call
PidStep_stale_ei(input, ei, g) ==
    LET e == input - g.distance_from_wall
        ei2 == ei + e * g.sampling_rate
        ed == e \div g.sampling_rate
    IN  [ei |-> ei2, out |-> e * g.kp + ei * g.ki + ed * g.kd]

\* lines 147-150 under parameters g: the new ei_ and the returned correction
PidStep(input, ei, g) ==
    LET e == input - g.distance_from_wall
        ei2 == ei + e * g.sampling_rate
        ed == e \div g.sampling_rate
    IN  [ei |-> ei2, out |-> e * g.kp + ei2 * g.ki + ed * g.kd]

\* the new ei_ and the returned correction
lateral_pid_control(input, ei) == PidStep(input, ei, NodeGains)

\* ------------------------------------------------------------ wallTracking
\* mutant: && in place of || between the two gap tests
GapSkip_both(gs, ge, flw, f) == (gs /\ ge) /\ ~flw /\ f.noise

\* (gap_start || gap_end) && !front_left_wall && noiseCheck(flw_deg_)
GapSkip(gs, ge, flw, f) == (gs \/ ge) /\ ~flw /\ f.noise

\* mutant: the PID step is taken before the gap test
FollowWall_integrates_first(gs, ge, flw, f, ei, c) ==
    LET p == lateral_pid_control(f.leftWall, ei)
    IN  IF GapSkip(gs, ge, flw, f)
        THEN [branch |-> "skip", lin |-> c.max_linear_vel, ang |-> 0, ei |-> p.ei]
        ELSE [branch |-> "pid", lin |-> c.max_linear_vel, ang |-> p.out, ei |-> p.ei]

\* the if/else shared by the indoor case and the "Not open place" case
FollowWall(gs, ge, flw, f, ei, c) ==
    IF GapSkip(gs, ge, flw, f)
    THEN [branch |-> "skip", lin |-> c.max_linear_vel, ang |-> 0, ei |-> ei]
    ELSE LET p == lateral_pid_control(f.leftWall, ei)
         IN  [branch |-> "pid", lin |-> c.max_linear_vel, ang |-> p.out, ei |-> p.ei]

\* mutant: <= in place of <
Eval_strict(res) == IF res <= OpenEnterTh THEN -100 ELSE res

\* evals[i] = res < 0.7 ? -1. : res
Eval(res) == IF res < OpenEnterTh THEN -100 ELSE res
Evals(f) == << Eval(f.openFront), Eval(f.openLeft), Eval(f.openRight), 0 >>
\* mutant: the last largest element
MaxIndex_last(v) ==
    (CHOOSE i \in 1..Len(v) :
        /\ \A j \in 1..Len(v) : v[j] <= v[i]
        /\ \A j \in (i + 1)..Len(v) : v[j] < v[i]) - 1

\* std::max_element: the first largest element (0-based index)
MaxIndex(v) ==
    (CHOOSE i \in 1..Len(v) :
        /\ \A j \in 1..Len(v) : v[j] <= v[i]
        /\ \A j \in 1..(i - 1) : v[j] < v[i]) - 1

\* mutant: > in place of >=
FrontWall_strict(fwc) == fwc > stop_ray_th_

\* front_wall_check >= stop_ray_th_
FrontWall(fwc) == fwc >= stop_ray_th_

\* pub_cmd_vel(max_linear_vel_ / 4, DEG2RAD(-45))
Emergency(c) ==
    [branch |-> "emergency", lin |-> c.max_linear_vel \div 4, ang |-> DEG2RAD_m45]

\* the switch of wallTracking: the branch taken, the pub_cmd_vel arguments,
\* the new ei_ and the detection label
Decide(outdoor, gs, ge, flw, fwc, f, ei, c) ==
    IF ~outdoor
    THEN IF FrontWall(fwc)
         THEN Emergency(c) @@ [ei |-> ei, label |-> "Indoor"]
         ELSE FollowWall(gs, ge, flw, f, ei, c) @@ [label |-> "Indoor"]
    ELSE IF FrontWall(fwc)
         THEN Emergency(c) @@ [ei |-> ei, label |-> "Indoor"]
         ELSE LET max_index == MaxIndex(Evals(f))
              IN  CASE max_index = 0 ->
                         [branch |-> "front", lin |-> c.max_linear_vel, ang |-> 0,
                          ei |-> ei, label |-> "Front"]
                    [] max_index = 1 ->
                         [branch |-> "left", lin |-> c.max_linear_vel,
                          ang |-> c.max_angular_vel, ei |-> ei, label |-> "Left"]
                    [] max_index = 2 ->
                         [branch |-> "right", lin |-> c.max_linear_vel,
                          ang |-> c.min_angular_vel, ei |-> ei, label |-> "Right"]
                    [] OTHER ->
                         FollowWall(gs, ge, flw, f, ei, c) @@ [label |-> "Not open place"]

\* mutant: the label is published before the command
Published_label_first(d, c) ==
    << [topic |-> "open_place_detection", data |-> d.label],
       [topic |-> "cmd_vel", data |-> pub_cmd_vel(d.lin, d.ang, c)] >>

\* the publish calls of one wallTracking, in order: the pub_cmd_vel of the
\* branch taken, then pub_open_place_detection (line 228)
Published(d, c) ==
    << [topic |-> "cmd_vel", data |-> pub_cmd_vel(d.lin, d.ang, c)],
       [topic |-> "open_place_detection", data |-> d.label] >>

\* What a dereference of scan_data_ reads: the stored scan, or, while the
\* pointer is still null, anything (the other outcome, a crash, is
\* wallTracking_null).
Views == IF scan_data_ = NoScan THEN Frames ELSE {scan_data_}

\* lines 155-159: the four queries made before the switch
wallTracking_read(t) ==
    /\ ~crashed
    /\ pc[t] = "read"
    /\ \E f \in Views :
        /\ gap_start' = [gap_start EXCEPT ![t] = f.conflictStart]
        /\ gap_end' = [gap_end EXCEPT ![t] = f.conflict90]
        /\ front_left_wall' = [front_left_wall EXCEPT ![t] = f.threshold]
        /\ front_wall_check' = [front_wall_check EXCEPT ![t] = f.frontWall]
    /\ pc' = [pc EXCEPT ![t] = "decide"]
    /\ cyclesAfterCancel' =
         [cyclesAfterCancel EXCEPT ![t] = IF canceling[t] THEN Min(@ + 1, 2) ELSE @]
    /\ emit' = NoEmit
    /\ UNCHANGED <<cfg, ok, crashed, sensorVars, ei_,
                   canceling, outcome, result_get, feedback_end, stop_cmd,
                   req, hist>>

\* lines 160-228: the switch, pub_cmd_vel and pub_open_place_detection
wallTracking_decide(t) ==
    /\ ~crashed
    /\ pc[t] = "decide"
    /\ \E f \in Views :
         LET d == Decide(outdoor_, gap_start[t], gap_end[t], front_left_wall[t],
                         front_wall_check[t], f, ei_, cfg)
         IN  /\ Abs(d.ei) <= EiBound
             /\ emit' = [by |-> t, branch |-> d.branch,
                          cmd |-> pub_cmd_vel(d.lin, d.ang, cfg), label |-> d.label,
                          pubs |-> Published(d, cfg)]
             /\ ei_' = d.ei
    /\ gap_start' = [gap_start EXCEPT ![t] = FALSE]
    /\ gap_end' = [gap_end EXCEPT ![t] = FALSE]
    /\ front_left_wall' = [front_left_wall EXCEPT ![t] = FALSE]
    /\ front_wall_check' = [front_wall_check EXCEPT ![t] = 0]
    /\ pc' = [pc EXCEPT ![t] = "loop"]
    /\ UNCHANGED <<cfg, ok, crashed, sensorVars, canceling, outcome, result_get,
                   feedback_end, cyclesAfterCancel, stop_cmd, req, hist>>

\* scan_data_-> on the null pointer kills the process
wallTracking_null(t) ==
    /\ ~crashed
    /\ pc[t] \in {"read", "decide"}
    /\ scan_data_ = NoScan
    /\ crashed' = TRUE
    /\ emit' = NoEmit
    /\ UNCHANGED <<cfg, ok, sensorVars, ei_, goalVars,
                   localVars, ghostVars, req, hist>>

\* ------------------------------------------------- action server handlers
\* the goal is in the server's EXECUTING state
Active(t) == pc[t] \in {"loop", "read", "decide"}

\* a client that sends goal t when the goals before it have ended, so that
\* one goal is active at a time
SequentialClient(t) == \A u \in Tasks : u < t => pc[u] = "done"

\* goals are numbered in the order of their acceptance
InOrder(t) == \A u \in Tasks : u < t => pc[u] # "idle"

\* handle_goal accepts every goal, whatever the other goals are doing;
\* handle_accepted detaches a thread that runs execute, which begins with
\* lines 270-274 (feedback->end = false).
handle_accepted(t) ==
    /\ Spinning
    /\ pc[t] = "idle"
    /\ pc' = [pc EXCEPT ![t] = "loop"]
    /\ feedback_end' = [feedback_end EXCEPT ![t] = FALSE]
    /\ emit' = NoEmit
    /\ UNCHANGED <<cfg, ok, crashed, sensorVars, ei_,
                   canceling, outcome, result_get, localVars, ghostVars, req, hist>>

\* handle_cancel accepts: goal_handle->is_canceling() from now on
handle_cancel(t) ==
    /\ Spinning
    /\ Active(t)
    /\ ~canceling[t]
    /\ canceling' = [canceling EXCEPT ![t] = TRUE]
    /\ emit' = NoEmit
    /\ UNCHANGED <<cfg, ok, crashed, sensorVars, ei_,
                   pc, outcome, result_get, feedback_end, localVars, ghostVars,
                   req, hist>>

\* rclcpp::shutdown(): ok() is false from now on
shutdown ==
    /\ Spinning
    /\ ok' = FALSE
    /\ emit' = NoEmit
    /\ UNCHANGED <<cfg, crashed, sensorVars, ei_, goalVars,
                   localVars, ghostVars, req, hist>>

\* ----------------------------------------------------------------- execute
\* mutant: the loop also ends once the open place is reached
LoopCondition_until_arrived == ok /\ ~open_place_
\* mutant: the cancel test is missing
is_canceling_ignored(t) == FALSE
\* mutant: succeed is not guarded
AfterLoopCondition_always == TRUE

\* line 275: while (rclcpp::ok())
LoopCondition == ok
\* line 276: goal_handle->is_canceling()
is_canceling(t) == canceling[t]
\* line 287: if (rclcpp::ok())
AfterLoopCondition == ok

\* One test of the loop condition and what follows it up to the next read of
\* shared state: lines 287-291 when the loop ends, lines 276-278 when the
\* goal is canceling, lines 283-284 otherwise.
execute_loop(t) ==
    /\ ~crashed
    /\ pc[t] = "loop"
    /\ IF ~LoopCondition
       THEN /\ result_get' = [result_get EXCEPT ![t] = IF AfterLoopCondition THEN TRUE ELSE @]
            /\ outcome' = [outcome EXCEPT ![t] = IF AfterLoopCondition THEN "Succeeded" ELSE @]
            /\ pc' = [pc EXCEPT ![t] = "done"]
            /\ feedback_end' = [feedback_end EXCEPT ![t] = FALSE]
       ELSE IF is_canceling(t)
       THEN /\ result_get' = [result_get EXCEPT ![t] = FALSE]
            /\ outcome' = [outcome EXCEPT ![t] = "Canceled"]
            /\ pc' = [pc EXCEPT ![t] = "stop"]
            /\ UNCHANGED feedback_end
       ELSE /\ feedback_end' = [feedback_end EXCEPT ![t] = open_place_]
            /\ pc' = [pc EXCEPT ![t] = "read"]
            /\ UNCHANGED <<result_get, outcome>>
    /\ emit' = NoEmit
    /\ UNCHANGED <<cfg, ok, crashed, sensorVars, ei_,
                   canceling, localVars, cyclesAfterCancel, stop_cmd, req, hist>>

\* mutant: return without the stop command
execute_stop_silent(t) ==
    /\ ~crashed
    /\ pc[t] = "stop"
    /\ emit' = NoEmit
    /\ pc' = [pc EXCEPT ![t] = "done"]
    /\ feedback_end' = [feedback_end EXCEPT ![t] = FALSE]
    /\ UNCHANGED <<cfg, ok, crashed, sensorVars, ei_, canceling, outcome,
                   result_get, localVars, ghostVars, req, hist>>

\* lines 279-281: pub_cmd_vel(0.0, 0.0); return
execute_stop(t) ==
    /\ ~crashed
    /\ pc[t] = "stop"
    /\ emit' = [by |-> t, branch |-> "stop", cmd |-> pub_cmd_vel(0, 0, cfg), label |-> "",
                 pubs |-> << [topic |-> "cmd_vel", data |-> pub_cmd_vel(0, 0, cfg)] >>]
    /\ stop_cmd' = [stop_cmd EXCEPT ![t] = pub_cmd_vel(0, 0, cfg)]
    /\ pc' = [pc EXCEPT ![t] = "done"]
    /\ feedback_end' = [feedback_end EXCEPT ![t] = FALSE]
    /\ UNCHANGED <<cfg, ok, crashed, sensorVars, ei_, canceling,
                   outcome, result_get, localVars, cyclesAfterCancel, req, hist>>

\* ------------------------------------------------------------ specification
Next ==
    \/ \E f \in Frames : scan_callback(f)
    \/ \E k \in CovarianceTypes : gnss_callback(k)
    \/ shutdown
    \/ \E t \in Tasks : SequentialClient(t) /\ handle_accepted(t)
    \/ \E t \in Tasks : handle_cancel(t)
    \/ \E t \in Tasks : execute_loop(t)
    \/ \E t \in Tasks : execute_stop(t)
    \/ \E t \in Tasks : wallTracking_read(t)
    \/ \E t \in Tasks : wallTracking_decide(t)
    \/ \E t \in Tasks : wallTracking_null(t)

Spec == Init /\ [][Next]_vars

\* --------------------------------------------- pub_cmd_vel on its own
\* requested (linear_x, angular_z) pairs
Requests ==
    {-1000, -400, -100, 0, 100, 400, 1000} \X {-1500, -785, -250, 0, 250, 1000, 1500}

InitClamp ==
    /\ \E c \in Configs : Constructed(c)
    /\ req \in Requests

\* one call pub_cmd_vel(req)
pub_cmd_vel_call ==
    /\ emit = NoEmit
    /\ emit' = [by |-> 0, branch |-> "request",
                cmd |-> pub_cmd_vel(req[1], req[2], cfg), label |-> "",
                pubs |-> << [topic |-> "cmd_vel",
                             data |-> pub_cmd_vel(req[1], req[2], cfg)] >>]
    /\ UNCHANGED <<cfg, ok, crashed, sensorVars, ei_, goalVars, localVars,
                   ghostVars, req, hist>>

NextClamp == pub_cmd_vel_call

SpecClamp == InitClamp /\ [][NextClamp]_vars

\* ------------------------------------- the scan callbacks with a history
InitScan ==
    /\ Constructed(WideConfig)
    /\ req = NoCmd

\* scan_callback, recording the outdoor scans since the last indoor scan
scan_history(f) ==
    /\ ScanUpdate(f)
    /\ IF outdoor_
       THEN /\ Len(hist) < MaxHist
            /\ hist' = Append(hist, <<f.open90, open_place_, open_place_'>>)
       ELSE hist' = << >>

NextScan ==
    \/ \E f \in HystFrames : scan_history(f)
    \/ \E k \in CovarianceTypes : gnss_callback(k)

SpecScan == InitScan /\ [][NextScan]_vars

\* ------------------------------- one goal, sent after the first scan
\* the first goal of the behaviour
OnlyGoal(t) == \A u \in Tasks : t <= u

RunFrames == WallFrames \cup SectorGrid

NextRunning ==
    \/ \E f \in RunFrames : scan_callback(f)
    \/ \E k \in CovarianceTypes : gnss_callback(k)
    \/ shutdown
    \/ \E t \in Tasks : init_scan_data_ /\ OnlyGoal(t) /\ handle_accepted(t)
    \/ \E t \in Tasks : handle_cancel(t)
    \/ \E t \in Tasks : execute_loop(t)
    \/ \E t \in Tasks : execute_stop(t)
    \/ \E t \in Tasks : wallTracking_read(t)
    \/ \E t \in Tasks : wallTracking_decide(t)

SpecRunning == Init /\ [][NextRunning]_vars

\* ---------------------------------------- goals sent without waiting
ConcurrentFrames ==
    { With(Corridor, [leftWall |-> l]) : l \in LateralLevels }
    \cup { With(Corridor, [frontWall |-> stop_ray_th_]) }

NextConcurrent ==
    \/ \E f \in ConcurrentFrames : scan_callback(f)
    \/ \E k \in CovarianceTypes : gnss_callback(k)
    \/ shutdown
    \/ \E t \in Tasks : InOrder(t) /\ handle_accepted(t)
    \/ \E t \in Tasks : handle_cancel(t)
    \/ \E t \in Tasks : execute_loop(t)
    \/ \E t \in Tasks : execute_stop(t)
    \/ \E t \in Tasks : wallTracking_read(t)
    \/ \E t \in Tasks : wallTracking_decide(t)
    \/ \E t \in Tasks : wallTracking_null(t)

SpecConcurrent == InitScan /\ [][NextConcurrent]_vars

\* ------------------------------------- lateral_pid_control on its own
\* |ei_| stays within this bound in the calls of lateral_pid_control
PidEiBound == 12

\* kp = 1, ki = 0, kd = 0, sampling_rate = 1, distance_from_wall = 1.0
ExampleGains ==
    [distance_from_wall |-> distance_from_wall_, sampling_rate |-> 1,
     kp |-> 100, ki |-> 0, kd |-> 0]
\* the integral term alone, the derivative term alone
IntegralGains ==
    [distance_from_wall |-> distance_from_wall_, sampling_rate |-> sampling_rate_,
     kp |-> 0, ki |-> 100, kd |-> 0]
DerivativeGains ==
    [distance_from_wall |-> distance_from_wall_, sampling_rate |-> sampling_rate_,
     kp |-> 0, ki |-> 0, kd |-> 100]
PidGains == {ExampleGains, NodeGains, IntegralGains, DerivativeGains}

\* leftWallCheck means, 0.6 m to 1.5 m
PidInputs == {6, 8, 10, 12, 14, 15}

\* The inputs of a call: the error is one that sampling_rate divides, so
\* that the integer quotient is the quotient the float division gives.
PidCases ==
    { r \in [g : PidGains, input : PidInputs] :
        (r.input - r.g.distance_from_wall) % r.g.sampling_rate = 0 }

InitPid ==
    /\ Constructed(WideConfig)
    /\ req \in PidCases

\* one call lateral_pid_control(req.input) under the parameters req.g
pid_call ==
    LET r == PidStep(req.input, ei_, req.g)
    IN  /\ Abs(r.ei) <= PidEiBound
        /\ ei_' = r.ei
        /\ emit' = [by |-> 0, branch |-> "pid_call", cmd |-> << r.out >>,
                    label |-> "", pubs |-> << >>]
        /\ UNCHANGED <<cfg, ok, crashed, sensorVars, goalVars, localVars,
                       ghostVars, req, hist>>

\* the next call has another input
pid_input ==
    /\ \E r \in PidCases : r.g = req.g /\ r.input # req.input /\ req' = r
    /\ emit' = NoEmit
    /\ UNCHANGED <<cfg, ok, crashed, sensorVars, ei_, goalVars, localVars,
                   ghostVars, hist>>

NextPid == pid_call \/ pid_input

SpecPid == InitPid /\ [][NextPid]_vars

\* ------------------------------------------------------------------ claims

\* 0 lies within the velocity bounds of configuration c
ZeroInBounds(c) ==
    c.max_linear_vel >= 0 /\ c.min_angular_vel <= 0 /\ 0 <= c.max_angular_vel

\* the goal's step that ends a decision cycle
CycleStep(t) == pc[t] = "decide" /\ pc'[t] = "loop"

\* C1 as stated: once a cancel request was accepted for an executing goal,
\* execute ends in no other way than with the Canceled outcome and a
\* (0, 0) stop command.
C1_Original ==
    \A t \in Tasks :
        pc[t] = "done" /\ canceling[t] =>
            outcome[t] = "Canceled" /\ stop_cmd[t] = <<0, 0>>

\* C1, amended: after a cancel request the goal begins at most one further
\* decision cycle and never succeeds; when execute has returned, either it
\* reported Canceled and published pub_cmd_vel(0, 0), which is (0, 0) when 0
\* lies within the velocity bounds, or the process was shut down before the
\* loop tested rclcpp::ok() again and it reported and published nothing.
C1_Cancellation ==
    \A t \in Tasks :
        /\ cyclesAfterCancel[t] <= 1
        /\ canceling[t] => outcome[t] # "Succeeded"
        /\ pc[t] = "done" /\ canceling[t] =>
             \/ /\ outcome[t] = "Canceled"
                /\ stop_cmd[t] = << Min(0, cfg.max_linear_vel),
                                    Max(Min(0, cfg.max_angular_vel), cfg.min_angular_vel) >>
                /\ ZeroInBounds(cfg) => stop_cmd[t] = <<0, 0>>
             \/ /\ outcome[t] = "none"
                /\ stop_cmd[t] = NoCmd
                /\ ~ok

\* a goal cancelled during a decision cycle that it then completed, ended
\* Canceled with a (0, 0) stop command
C1_Witness ==
    \E t \in Tasks :
        /\ pc[t] = "done" /\ outcome[t] = "Canceled"
        /\ cyclesAfterCancel[t] = 1
        /\ stop_cmd[t] = <<0, 0>>

\* C2 as stated: no state in which the goal is Canceled and its stop command
\* is not yet published.
C2_Original ==
    \A t \in Tasks : outcome[t] = "Canceled" => stop_cmd[t] # NoCmd

\* C2, amended: the iteration that observes the cancel request first reports
\* Canceled and then publishes the stop command, with no decision cycle in
\* between: a Canceled goal is at the stop command or has returned, the stop
\* command is not published before Canceled is reported, and it is published
\* when execute has returned.
C2_CancelOrder ==
    \A t \in Tasks :
        /\ outcome[t] = "Canceled" => pc[t] \in {"stop", "done"}
        /\ pc[t] = "stop" => outcome[t] = "Canceled" /\ stop_cmd[t] = NoCmd
        /\ stop_cmd[t] # NoCmd => outcome[t] = "Canceled" /\ pc[t] = "done"
        /\ pc[t] = "done" /\ outcome[t] = "Canceled" => stop_cmd[t] # NoCmd
        /\ emit.by = t /\ emit.branch = "stop" => stop_cmd[t] = emit.cmd

\* the stop command was just published by a goal already reported Canceled
C2_Witness ==
    \E t \in Tasks :
        /\ emit.by = t /\ emit.branch = "stop"
        /\ outcome[t] = "Canceled" /\ pc[t] = "done"

\* C3 as stated: whatever the request and the configuration, the published
\* linear velocity is at most max_linear_vel and the published angular
\* velocity lies in [min_angular_vel, max_angular_vel].
C3_Original ==
    emit.branch = "request" =>
        /\ emit.cmd[1] <= cfg.max_linear_vel
        /\ cfg.min_angular_vel <= emit.cmd[2]
        /\ emit.cmd[2] <= cfg.max_angular_vel

\* C3, amended: the published linear velocity is at most max_linear_vel and
\* is the request when the request is not above it (negative requests
\* included); the published angular velocity is at least min_angular_vel,
\* and at most max_angular_vel in every configuration with
\* min_angular_vel <= max_angular_vel.
C3_Clamp ==
    emit.branch = "request" =>
        /\ emit.cmd[1] <= cfg.max_linear_vel
        /\ req[1] <= cfg.max_linear_vel => emit.cmd[1] = req[1]
        /\ cfg.min_angular_vel <= emit.cmd[2]
        /\ cfg.min_angular_vel <= cfg.max_angular_vel =>
               /\ emit.cmd[2] <= cfg.max_angular_vel
               /\ (cfg.min_angular_vel <= req[2] /\ req[2] <= cfg.max_angular_vel)
                      => emit.cmd[2] = req[2]

\* a negative linear request passed through and an angular request below
\* min_angular_vel raised to it
C3_Witness ==
    /\ emit.branch = "request"
    /\ req[1] < 0 /\ emit.cmd[1] = req[1]
    /\ cfg.min_angular_vel <= cfg.max_angular_vel
    /\ req[2] < cfg.min_angular_vel /\ emit.cmd[2] = cfg.min_angular_vel

\* C4 as stated: a decision cycle whose frontWallCheck fraction is at least
\* stop_ray_th_ publishes exactly (max_linear_vel / 4, DEG2RAD(-45)).
C4_Original ==
    [][\A t \in Tasks :
         CycleStep(t) /\ front_wall_check[t] >= 50 =>
             emit'.cmd = << cfg.max_linear_vel \div 4, -785 >>]_vars

\* C4, amended: in either mode such a cycle takes the emergency branch and
\* no other (ei_ is unchanged): it publishes
\* pub_cmd_vel(max_linear_vel / 4, DEG2RAD(-45)), the pair as clamped by
\* pub_cmd_vel, which is exactly that pair when max_linear_vel >= 0 and
\* min_angular_vel <= DEG2RAD(-45) <= max_angular_vel.
C4_Emergency ==
    [][\A t \in Tasks :
         CycleStep(t) /\ front_wall_check[t] >= 50 =>
             /\ emit'.by = t /\ emit'.branch = "emergency"
             /\ ei_' = ei_
             /\ emit'.cmd[1] = Min(cfg.max_linear_vel \div 4, cfg.max_linear_vel)
             /\ emit'.cmd[2] = Max(Min(-785, cfg.max_angular_vel), cfg.min_angular_vel)
             /\ (/\ cfg.max_linear_vel >= 0
                 /\ cfg.min_angular_vel <= -785
                 /\ -785 <= cfg.max_angular_vel)
                  => emit'.cmd = << cfg.max_linear_vel \div 4, -785 >>]_vars

\* an emergency response published unclamped, in outdoor mode
C4_Witness ==
    /\ emit.branch = "emergency"
    /\ outdoor_
    /\ emit.cmd = << cfg.max_linear_vel \div 4, -785 >>

\* C5: in outdoor mode every scan sets the flag to score >= 0.7 when it was
\* false and to score >= 0.4 when it was true, each scan starting from the
\* flag the scan before left; five outdoor scans with scores 0.5, 0.75, 0.5,
\* 0.35, 0.5 from a false flag give false, true, true, false, false.
C5_Hysteresis ==
    /\ \A i \in 1..Len(hist) :
           /\ hist[i][3] = (IF hist[i][2] THEN hist[i][1] >= 40 ELSE hist[i][1] >= 70)
           /\ hist[i][2] = (IF i = 1 THEN FALSE ELSE hist[i - 1][3])
    /\ Len(hist) > 0 => open_place_ = hist[Len(hist)][3]
    /\ \A k \in 0..(Len(hist) - 5) :
           (/\ ~hist[k + 1][2]
            /\ [i \in 1..5 |-> hist[k + i][1]] = <<50, 75, 50, 35, 50>>)
               => [i \in 1..5 |-> hist[k + i][3]] = <<FALSE, TRUE, TRUE, FALSE, FALSE>>

\* the five scans of the example were processed
C5_Witness ==
    /\ Len(hist) >= 5
    /\ [i \in 1..5 |-> hist[i][1]] = <<50, 75, 50, 35, 50>>
    /\ [i \in 1..5 |-> hist[i][3]] = <<FALSE, TRUE, TRUE, FALSE, FALSE>>

\* C6 as stated: in indoor mode the flag is false in every state.
C6_Original == ~outdoor_ => ~open_place_ /\ \A t \in Tasks : ~feedback_end[t]

\* C6, amended: every scan processed in indoor mode leaves the flag false
\* and no step in indoor mode sets it; only scan_callback changes the flag,
\* so after a GNSS update to indoor mode it keeps its value, possibly true,
\* until the next scan.
C6_IndoorScan ==
    [][/\ ((\E f \in Frames : scan_callback(f)) /\ ~outdoor_) => ~open_place_'
       /\ (~outdoor_ /\ ~open_place_) => ~open_place_'
       /\ open_place_' # open_place_ => \E f \in Frames : scan_callback(f)]_vars

\* an indoor scan with an openness score of 0.75 left the flag false
C6_Witness ==
    /\ ~outdoor_ /\ ~open_place_
    /\ scan_data_ # NoScan /\ scan_data_.open90 >= 70

\* C7: ei_ is 0 when a newly accepted goal starts executing.
C7_Claim ==
    [][\A t \in Tasks : (pc[t] = "idle" /\ pc'[t] = "loop") => ei_' = 0]_vars

\* C8 as stated: when the loop ends without a cancel having been observed,
\* the goal succeeds and result->get is the open-place flag.
C8_Original ==
    \A t \in Tasks :
        pc[t] = "done" /\ outcome[t] # "Canceled" =>
            outcome[t] = "Succeeded" /\ result_get[t] = open_place_

\* C8, amended: when the loop ends because the process is shutting down,
\* execute returns without reporting an outcome: succeed is behind a second
\* rclcpp::ok() test, which is false then, so no goal ever succeeds and
\* result->get stays false.
C8_Shutdown ==
    \A t \in Tasks :
        /\ outcome[t] # "Succeeded"
        /\ ~result_get[t]
        /\ pc[t] = "done" /\ outcome[t] # "Canceled" => outcome[t] = "none" /\ ~ok

\* execute returned on shutdown, without a cancel request and with the flag
\* true, and reported nothing
C8_Witness ==
    \E t \in Tasks :
        /\ pc[t] = "done" /\ ~canceling[t] /\ outcome[t] = "none"
        /\ open_place_

\* C9: a goal leaves the loop (to the cancel branch or to the end of
\* execute) only after a cancel request or a shutdown, whatever the
\* open-place flag is.
C9_NoInternalTermination ==
    \A t \in Tasks : pc[t] \in {"stop", "done"} => canceling[t] \/ ~ok

\* a goal that reported the open place as reached completed a further
\* decision cycle and is still executing, with no cancel and no shutdown
C9_Witness ==
    \E t \in Tasks :
        /\ pc[t] = "loop" /\ feedback_end[t] /\ open_place_
        /\ emit.by = t /\ emit.branch \in {"front", "left", "right", "pid", "skip", "emergency"}
        /\ ~canceling[t] /\ ok

\* C10 as stated: an indoor decision cycle with gap_start, no front-left
\* wall and noiseCheck true publishes (max_linear_vel, 0).
C10_Original ==
    [][\A t \in Tasks :
         (/\ CycleStep(t) /\ ~outdoor_
          /\ gap_start[t] /\ ~front_left_wall[t]
          /\ scan_data_ # NoScan /\ scan_data_.noise)
            => emit'.cmd = << cfg.max_linear_vel, 0 >>]_vars

\* C10, amended: such a cycle, when its frontWallCheck fraction is below
\* stop_ray_th_, takes the gap-skip branch whatever ei_ is and leaves ei_
\* unchanged: it publishes pub_cmd_vel(max_linear_vel, 0), linear
\* max_linear_vel and angular 0 clamped to the angular bounds, which is 0
\* when min_angular_vel <= 0 <= max_angular_vel.
C10_GapSkip ==
    [][\A t \in Tasks :
         (/\ CycleStep(t) /\ ~outdoor_
          /\ gap_start[t] /\ ~front_left_wall[t]
          /\ scan_data_ # NoScan /\ scan_data_.noise
          /\ front_wall_check[t] < 50)
            => /\ emit'.by = t /\ emit'.branch = "skip"
               /\ ei_' = ei_
               /\ emit'.cmd[1] = cfg.max_linear_vel
               /\ emit'.cmd[2] = Max(Min(0, cfg.max_angular_vel), cfg.min_angular_vel)
               /\ (cfg.min_angular_vel <= 0 /\ 0 <= cfg.max_angular_vel)
                    => emit'.cmd = << cfg.max_linear_vel, 0 >>]_vars

\* an indoor gap skip published (max_linear_vel, 0) with a non-zero ei_
C10_Witness ==
    /\ emit.branch = "skip" /\ emit.label = "Indoor"
    /\ emit.cmd = << cfg.max_linear_vel, 0 >>
    /\ ei_ # 0

\* the fractions of the three outdoor sectors in the stored scan
SectorFractions == << scan_data_.openFront, scan_data_.openLeft, scan_data_.openRight >>

\* a decision cycle of goal t in outdoor mode whose frontWallCheck fraction
\* is below stop_ray_th_
OutdoorCycle(t) == CycleStep(t) /\ outdoor_ /\ front_wall_check[t] < 50

\* the label an outdoor cycle without emergency publishes, by the claimed
\* rule: none qualifies, or the highest qualifying fraction
SectorLabelOk(label, a, b, c) ==
    /\ label \in {"Front", "Left", "Right", "Not open place"}
    /\ (label = "Not open place") <=> (a < 70 /\ b < 70 /\ c < 70)
    /\ label = "Front" => a >= 70 /\ a >= b /\ a >= c
    /\ label = "Left" => b >= 70 /\ b >= a /\ b >= c
    /\ label = "Right" => c >= 70 /\ c >= a /\ c >= b

\* C11 as stated: an outdoor cycle without emergency labels by the highest
\* qualifying fraction and publishes exactly (max_linear_vel, 0),
\* (max_linear_vel, max_angular_vel) or (max_linear_vel, min_angular_vel).
C11_Original ==
    [][\A t \in Tasks :
         OutdoorCycle(t) =>
             /\ SectorLabelOk(emit'.label, SectorFractions[1], SectorFractions[2],
                              SectorFractions[3])
             /\ emit'.label = "Front" => emit'.cmd = << cfg.max_linear_vel, 0 >>
             /\ emit'.label = "Left" =>
                    emit'.cmd = << cfg.max_linear_vel, cfg.max_angular_vel >>
             /\ emit'.label = "Right" =>
                    emit'.cmd = << cfg.max_linear_vel, cfg.min_angular_vel >>]_vars

\* C11, amended: the label is "Not open place" iff the three fractions are
\* below 0.7, and the cycle then takes the gap-skip or the PID branch;
\* otherwise it is the label of a sector with the highest fraction among
\* those >= 0.7.  The command is pub_cmd_vel of (max_linear_vel, 0),
\* (max_linear_vel, max_angular_vel) or (max_linear_vel, min_angular_vel):
\* linear max_linear_vel; angular min_angular_vel for "Right"; for "Left"
\* max_angular_vel when min_angular_vel <= max_angular_vel and
\* min_angular_vel otherwise; for "Front" 0 when
\* min_angular_vel <= 0 <= max_angular_vel.  ei_ changes in the PID branch
\* only.
C11_SectorSelection ==
    [][\A t \in Tasks :
         OutdoorCycle(t) =>
             /\ emit'.by = t
             /\ SectorLabelOk(emit'.label, SectorFractions[1], SectorFractions[2],
                              SectorFractions[3])
             /\ emit'.label = "Not open place" <=> emit'.branch \in {"skip", "pid"}
             /\ emit'.branch # "pid" => ei_' = ei_
             /\ emit'.label # "Not open place" => emit'.cmd[1] = cfg.max_linear_vel
             /\ emit'.label = "Front" =>
                    /\ emit'.branch = "front"
                    /\ emit'.cmd[2] = Max(Min(0, cfg.max_angular_vel), cfg.min_angular_vel)
                    /\ (cfg.min_angular_vel <= 0 /\ 0 <= cfg.max_angular_vel)
                          => emit'.cmd = << cfg.max_linear_vel, 0 >>
             /\ emit'.label = "Left" =>
                    /\ emit'.branch = "left"
                    /\ emit'.cmd[2] = Max(cfg.max_angular_vel, cfg.min_angular_vel)
                    /\ cfg.min_angular_vel <= cfg.max_angular_vel
                          => emit'.cmd = << cfg.max_linear_vel, cfg.max_angular_vel >>
             /\ emit'.label = "Right" =>
                    /\ emit'.branch = "right"
                    /\ emit'.cmd = << cfg.max_linear_vel, cfg.min_angular_vel >>]_vars

\* a cycle chose "Left" over a qualifying but lower front fraction and
\* published (max_linear_vel, max_angular_vel)
C11_Witness ==
    /\ emit.label = "Left" /\ outdoor_
    /\ scan_data_.openFront >= 70 /\ scan_data_.openLeft > scan_data_.openFront
    /\ emit.cmd = << cfg.max_linear_vel, cfg.max_angular_vel >>

\* C12: a GNSS update with covariance type k leaves the mode outdoor iff k
\* is not COVARIANCE_TYPE_UNKNOWN, whatever the mode was, and only a GNSS
\* update changes the mode.
C12_Mode ==
    [][/\ \A k \in CovarianceTypes :
              gnss_callback(k) => (outdoor_' <=> k # 0)
       /\ outdoor_' # outdoor_ => \E k \in CovarianceTypes : gnss_callback(k)
       /\ (\E f \in Frames : scan_callback(f)) => outdoor_' = outdoor_
       /\ (\E t \in Tasks : pc'[t] # pc[t]) => outdoor_' = outdoor_]_vars

\* the mode is indoor again after a scan that was processed in outdoor mode
\* announced the open place
C12_Witness ==
    /\ ~outdoor_
    /\ open_place_arrived_msg_
    /\ init_scan_data_

\* C13: no two goals are executing at the same time.
C13_Claim ==
    \A t, u \in Tasks : t # u => ~(Active(t) /\ Active(u))

\* C14: the four query results a cycle read before its switch are those of
\* the scan its switch reads.
C14_Claim ==
    [][\A t \in Tasks :
         CycleStep(t) =>
             /\ gap_start[t] = scan_data_.conflictStart
             /\ gap_end[t] = scan_data_.conflict90
             /\ front_left_wall[t] = scan_data_.threshold
             /\ front_wall_check[t] = scan_data_.frontWall]_vars

\* C15: every decision cycle, in each of its branches, publishes one
\* velocity command and then one detection label, and nothing else; no other
\* step publishes a detection label.
C15_OneCommandOneLabel ==
    [][/\ \A t \in Tasks :
              CycleStep(t) =>
                  /\ emit'.by = t
                  /\ emit'.branch \in {"emergency", "skip", "pid", "front", "left", "right"}
                  /\ Len(emit'.pubs) = 2
                  /\ emit'.pubs[1] = [topic |-> "cmd_vel", data |-> emit'.cmd]
                  /\ emit'.pubs[2] = [topic |-> "open_place_detection", data |-> emit'.label]
                  /\ emit'.label \in {"Indoor", "Front", "Left", "Right", "Not open place"}
                  /\ emit'.cmd # NoCmd
       /\ (\E i \in 1..Len(emit'.pubs) : emit'.pubs[i].topic = "open_place_detection")
              => \E t \in Tasks : CycleStep(t)]_vars

\* the PID fallback of an outdoor cycle published its command and then the
\* label "Not open place"
C15_Witness ==
    /\ emit.branch = "pid" /\ emit.label = "Not open place"
    /\ Len(emit.pubs) = 2
    /\ emit.pubs[1].topic = "cmd_vel" /\ emit.pubs[2].topic = "open_place_detection"

\* C16: a cycle publishes "Indoor" only in indoor mode, and in outdoor mode
\* one of "Front", "Left", "Right", "Not open place".
C16_Claim ==
    [][\A t \in Tasks :
         CycleStep(t) =>
             /\ emit'.label = "Indoor" => ~outdoor_
             /\ outdoor_ => emit'.label \in {"Front", "Left", "Right", "Not open place"}]_vars

\* C17: one call adds e * sampling_rate to ei_ and returns
\* kp * e + ki * ei_ + kd * (e / sampling_rate) with the new ei_, unclamped;
\* kp = 1, ki = 0, kd = 0, sampling_rate 1, distance_from_wall 1.0 and input
\* 1.5 give 0.5.
C17_PidStep ==
    [][emit'.branch = "pid_call" =>
           LET e == req.input - req.g.distance_from_wall
           IN  /\ ei_' = ei_ + e * req.g.sampling_rate
               /\ emit'.cmd[1] = req.g.kp * e + req.g.ki * ei_'
                                  + req.g.kd * (e \div req.g.sampling_rate)
               /\ (/\ req.g.kp = 100 /\ req.g.ki = 0 /\ req.g.kd = 0
                   /\ req.g.sampling_rate = 1 /\ req.g.distance_from_wall = 10
                   /\ req.input = 15)
                    => emit'.cmd[1] = 500]_vars

\* the call of the example returned 0.5, for the second time
C17_Witness ==
    /\ emit.branch = "pid_call"
    /\ req.g = ExampleGains /\ req.input = 15
    /\ emit.cmd = << 500 >>
    /\ ei_ = 10

\* C18: a cycle makes its queries only after the first scan was received.
C18_Claim ==
    [][\A t \in Tasks :
         (pc[t] = "read" /\ pc'[t] = "decide") =>
             init_scan_data_ /\ scan_data_ # NoScan]_vars

\* C19: ei_ changes only in a decision cycle that takes the PID branch, by
\* one step (leftWallCheck - distance_from_wall_) * sampling_rate_; the
\* other branches and every other step leave it unchanged.
C19_EiFrame ==
    [][/\ ei_' # ei_ => \E t \in Tasks : CycleStep(t) /\ emit'.by = t /\ emit'.branch = "pid"
       /\ \A t \in Tasks :
              CycleStep(t) =>
                  IF emit'.branch = "pid"
                  THEN \E f \in Views : ei_' = ei_ + (f.leftWall - 10) * 2
                  ELSE ei_' = ei_]_vars

\* the PID fallback of an outdoor cycle took the first step from ei_ = 0
C19_Witness ==
    /\ scan_data_ # NoScan
    /\ emit.branch = "pid" /\ emit.label = "Not open place"
    /\ ei_ # 0
    /\ ei_ = (scan_data_.leftWall - 10) * 2

\* C20: with the fractions a (front), b (left), c (right), the label is
\* "Front" iff a qualifies and is not below b or c, "Left" iff b qualifies,
\* is above a and not below c, "Right" iff c qualifies and is above a and
\* b; so equal scores yield "Front" and equal left and right scores with a
\* lower front yield "Left".
C20_TieBreak ==
    [][\A t \in Tasks :
         OutdoorCycle(t) =>
             LET a == SectorFractions[1]
                 b == SectorFractions[2]
                 c == SectorFractions[3]
             IN  /\ emit'.label = "Front" <=> (a >= 70 /\ a >= b /\ a >= c)
                 /\ emit'.label = "Left" <=> (b >= 70 /\ b > a /\ b >= c)
                 /\ emit'.label = "Right" <=> (c >= 70 /\ c > a /\ c > b)
                 /\ (a >= 70 /\ a = b /\ b = c) => emit'.label = "Front"
                 /\ (b >= 70 /\ b = c /\ a < b) => emit'.label = "Left"]_vars

\* equal left and right fractions above a qualifying front fraction gave
\* "Left"
C20_Witness ==
    /\ emit.label = "Left" /\ outdoor_
    /\ scan_data_.openLeft = scan_data_.openRight
    /\ scan_data_.openFront >= 70 /\ scan_data_.openFront < scan_data_.openLeft

====
